---------------------------- MODULE Spec2Model ----------------------------
(***************************************************************************)
(* Model of compiletest-differ: the review session of src/app.rs (loader,  *)
(* navigation, request_curr_test, bless, the run loop) over a small file   *)
(* system, and the view of src/view.rs and App::draw (layout modes, diff   *)
(* panels).                                                                *)
(*                                                                         *)
(* Conventions.                                                            *)
(*   - Option<String> is a sequence: None == <<>>, Some(t) == <<t>>.       *)
(*   - A text is a number in 0..MaxText; 0 is the empty string "" (what    *)
(*     unwrap_or_default yields for None).                                 *)
(*   - A file is named by [dir, test, ext]; fs maps a name to the result   *)
(*     of read_to_string(..).ok() on it.                                   *)
(*   - paths is a TLA+ sequence (1-based); the code's paths[current_test]  *)
(*     is paths[current_test + 1].                                         *)
(*   - For the diff, the text t consists of the lines (words) 1..t, so     *)
(*     that two texts share their common prefix.                           *)
(*   - A line of the log is what serde makes of it: a test record, a suite *)
(*     record, or a line that is no Item; a test name is known by whether  *)
(*     it holds the marker "[ui] " and by the text after the marker.       *)
(*   - A Rect is the sequence of splits that leads to it from the area of  *)
(*     the frame.                                                          *)
(***************************************************************************)
EXTENDS Integers, Sequences, FiniteSets, TLC

\* Number of failing tests in the list (len(paths)); main.rs:92 keeps it > 0.
NumTests == 2
\* A test log has at most MaxLog lines.
MaxLog == 3
\* Texts are 0..MaxText.
MaxText == 1
\* At most MaxFiles expected/actual output files exist when the session starts.
MaxFiles == 1
\* The scroll keys are followed up to this offset.
MaxScroll == 1
\* At most MaxNewOutputs actual output files exist in the sessions with
\* scroll keys.
MaxNewOutputs == 2

VARIABLES
    running,          \* App.running
    current_test,     \* App.current_test
    current_stream,   \* App.current_stream
    cached_streams,   \* App.cached_streams
    scroll_pos_diff,  \* App.scroll_pos_diff
    scroll_pos_code,  \* App.scroll_pos_code
    config,           \* App.config
    prev_view,        \* App.prev_view
    fs,               \* contents of the expected/actual output files
    kind,             \* per path: "ok", "nosrc" (source unreadable), "noprefix"
    events,           \* the lines of the test log given to main
    parsed,           \* the result of parse_events, None before the call
    pc,               \* position of main and run(): "main", "parsed", "start",
                      \* "draw", "request", "key", "done"
    status,           \* "running", "exit_success", "returned_ok", "panicked"
    frame,            \* the TestData drawn by the last completed render pass
    screen,           \* the widgets rendered by the last completed render pass
    entered,          \* the mode from which r entered RustcArgs, while the
                      \* mode has been RustcArgs since
    req,              \* the request_curr_test call in progress / last made:
                      \* where it began, its loads and call levels, the frame
                      \* on screen and the step before it
    last              \* the last step that was not the start of a frame, and
                      \* the position and cache before it

vars == <<running, current_test, current_stream, cached_streams,
          scroll_pos_diff, scroll_pos_code, config, prev_view, fs, kind,
          events, parsed, pc, status, frame, screen, entered, req, last>>

-----------------------------------------------------------------------------
(* Data *)

None == <<>>
Some(t) == <<t>>
unwrap_or_default(o) == IF o = None THEN 0 ELSE o[1]

Texts == 0..MaxText
Content == {None} \cup {Some(t) : t \in Texts}

Stderr == "Stderr"
Stdout == "Stdout"
Stream == {Stderr, Stdout}

paths == [k \in 1..NumTests |-> k]
PathNames == {paths[k] : k \in 1..NumTests}

Unloaded == [tag |-> "Unloaded"]
Missing == [tag |-> "Missing"]
Present(data) == [tag |-> "Present", data |-> data]

\* CachedStreams::default()
DefaultCache == [stderr |-> Unloaded, stdout |-> Unloaded]

NoFrame == [none |-> TRUE]

\* test_code.with_extension(ext)
ExpectedPath(p, ext) == [dir |-> "src", test |-> p, ext |-> ext]
\* rust_path/build/<triple>/test/<path minus tests/>/<stem>.<ext>
ActualPath(p, ext) == [dir |-> "build", test |-> p, ext |-> ext]

Files == {ExpectedPath(p, e) : p \in PathNames, e \in {"stderr", "stdout"}}
           \cup {ActualPath(p, e) : p \in PathNames, e \in {"stderr", "stdout"}}

TestData(p, expect, actual, stream, expected_path) ==
    [test_code |-> p, actual |-> actual, expect |-> expect, stream |-> stream,
     test_name |-> p, rustc_args |-> "TODO", expected_path |-> expected_path]

\* view.rs:37-47
Vertical == "Vertical"
VerticalOnly == "VerticalOnly"
SideBySide == "SideBySide"
SideBySideOnly == "SideBySideOnly"
RustcArgs(oneline) == IF oneline THEN "RustcArgs{oneline: true}"
                                 ELSE "RustcArgs{oneline: false}"
IsRustcArgs(m) == m \in {RustcArgs(TRUE), RustcArgs(FALSE)}
Oneline(m) == m = RustcArgs(TRUE)
DiffShowModes == {Vertical, VerticalOnly, SideBySide, SideBySideOnly}
ShowMode == DiffShowModes \cup {RustcArgs(TRUE), RustcArgs(FALSE)}

\* app.rs:438-444
DiffMode == {"Line", "Word", "Char"}

\* app.rs:386-391 with the #[default] variants (app.rs:440, view.rs:39-40).
DefaultConfig == [diff_mode |-> "Line", show_mode |-> Vertical, hide_help |-> FALSE]

-----------------------------------------------------------------------------
(* The test log (main.rs) *)

\* main.rs:16-27
Test(name, event) == [type |-> "test", name |-> name, event |-> event]
Suite(failed, passed, ignored) ==
    [type |-> "suite", failed |-> failed, passed |-> passed, ignored |-> ignored]

\* A line that serde_json::from_str::<Item> rejects (main.rs:39).
NoItem == [type |-> "none"]

\* Test names: a UI test "... [ui] <path>", or a name without the marker.
UiName(p) == [ui |-> TRUE, path |-> p]
OtherName == [ui |-> FALSE]
Names == {UiName(p) : p \in PathNames} \cup {OtherName}

\* name.split_once("[ui] ") of main.rs:48, keeping the part after the marker.
split_once(name) == IF name.ui THEN Some(name.path) ELSE None

Lines == {NoItem}
           \cup {Test(n, e) : n \in Names, e \in {"failed", "ok"}}
           \cup {Suite(f, 1, 0) : f \in 0..1}

RECURSIVE LogsOfLen(_)
LogsOfLen(n) ==
    IF n = 0 THEN {<<>>}
    ELSE {Append(l, x) : l \in LogsOfLen(n - 1), x \in Lines}

Logs == UNION {LogsOfLen(n) : n \in 0..MaxLog}

Parses(line) == line # NoItem

skip(n, seq) == IF Len(seq) <= n THEN <<>> ELSE SubSeq(seq, n + 1, Len(seq))

\* The iterator lines without the skip(1).
lines_keeps_first(evs) == SelectSeq(evs, Parses)

\* main.rs:37-40: lines().filter_map(from_str(..).ok()).skip(1)
lines(evs) == skip(1, SelectSeq(evs, Parses))

\* main.rs:46-68, the body of the loop on one record.
on_event(acc, event) ==
    CASE event.type = "test" /\ event.event # "failed" ->
             [acc EXCEPT !.ok_count = @ + 1]
      [] event.type = "test" /\ event.event = "failed" ->
             IF split_once(event.name) = None THEN acc
             ELSE [acc EXCEPT !.failed = Append(@, split_once(event.name)[1])]
      [] event.type = "suite" ->
             [acc EXCEPT !.stats = Some([failed |-> event.failed,
                                         passed |-> event.passed,
                                         ignored |-> event.ignored])]

RECURSIVE for_each(_, _)
for_each(ls, acc) ==
    IF ls = <<>> THEN acc ELSE for_each(Tail(ls), on_event(acc, Head(ls)))

\* main.rs:36-80
parse_events(evs) ==
    LET acc == for_each(lines(evs), [failed |-> <<>>, stats |-> None, ok_count |-> 0])
    IN  [failed |-> acc.failed,
         stats |-> IF acc.stats # None THEN acc.stats[1]
                   ELSE [failed |-> Len(acc.failed), passed |-> acc.ok_count,
                         ignored |-> 0]]

\* A log that yields the failing-test list paths: a first record, then one
\* failed UI test per path.
LogOfPaths ==
    <<Test(OtherName, "ok")>> \o [i \in 1..Len(paths) |-> Test(UiName(paths[i]), "failed")]

-----------------------------------------------------------------------------
(* The App struct as a record, so that its methods are operators *)

Self == [current_test |-> current_test, current_stream |-> current_stream,
         cached_streams |-> cached_streams,
         scroll_pos_diff |-> scroll_pos_diff, scroll_pos_code |-> scroll_pos_code,
         config |-> config, prev_view |-> prev_view,
         exited |-> FALSE, panicked |-> FALSE]


(* Test Data Loader *)

\* app.rs:98, the stderr condition. In Rust && binds tighter than ||.
stderr_has_diff(expected_stderr, actual_stderr) ==
    \/ expected_stderr # None
    \/ (actual_stderr # None /\ expected_stderr # actual_stderr)

\* app.rs:118, the stdout condition.
stdout_has_diff(expected_stdout, actual_stdout) ==
    \/ expected_stdout # None
    \/ (actual_stdout # None /\ expected_stdout # actual_stdout)

\* app.rs:98-116
load_stderr(p, f) ==
    LET expected_stderr == f[ExpectedPath(p, "stderr")]
        actual_stderr == f[ActualPath(p, "stderr")]
    IN  IF stderr_has_diff(expected_stderr, actual_stderr)
        THEN Present(TestData(p, unwrap_or_default(expected_stderr),
                              unwrap_or_default(actual_stderr), Stderr,
                              ExpectedPath(p, "stderr")))
        ELSE Missing

\* load_stdout that records the stderr file as the expected path.
load_stdout_wrong_path(p, f) ==
    LET expected_stdout == f[ExpectedPath(p, "stdout")]
        actual_stdout == f[ActualPath(p, "stdout")]
    IN  IF stdout_has_diff(expected_stdout, actual_stdout)
        THEN Present(TestData(p, unwrap_or_default(expected_stdout),
                              unwrap_or_default(actual_stdout), Stdout,
                              ExpectedPath(p, "stderr")))
        ELSE Missing

\* app.rs:118-139
load_stdout(p, f) ==
    LET expected_stdout == f[ExpectedPath(p, "stdout")]
        actual_stdout == f[ActualPath(p, "stdout")]
    IN  IF stdout_has_diff(expected_stdout, actual_stdout)
        THEN Present(TestData(p, unwrap_or_default(expected_stdout),
                              unwrap_or_default(actual_stdout), Stdout,
                              ExpectedPath(p, "stdout")))
        ELSE Missing

\* The let-else returning without marking any entry.
source_unreadable_leaves_unloaded(s) == s

\* The let-else setting only the stderr entry.
source_unreadable_stderr_only(s) ==
    [s EXCEPT !.cached_streams.stderr = Missing]

\* The let-else of app.rs:87-92: what an unreadable source file yields.
source_unreadable(s) ==
    [s EXCEPT !.cached_streams = [stderr |-> Missing, stdout |-> Missing]]

\* app.rs:67-140. paths[current_test] panics out of range (line 68), and
\* strip_prefix("tests/").expect(..) panics on a path without the prefix.
load_curr_data(s, f, k) ==
    IF s.current_test >= Len(paths)
    THEN [s EXCEPT !.panicked = TRUE]
    ELSE LET p == paths[s.current_test + 1]
         IN  IF k[p] = "noprefix"
             THEN [s EXCEPT !.panicked = TRUE]
             ELSE IF k[p] = "nosrc"
             THEN source_unreadable(s)
             ELSE [s EXCEPT !.cached_streams =
                       [stderr |-> load_stderr(p, f), stdout |-> load_stdout(p, f)]]

-----------------------------------------------------------------------------
(* Session State Machine *)

\* app.rs:153-156
reset_scroll(s) == [s EXCEPT !.scroll_pos_code = 0, !.scroll_pos_diff = 0]

\* advance_test without the exit(0) at the end of the list.
advance_test_no_exit(s) ==
    [reset_scroll(s) EXCEPT !.current_stream = Stderr,
              !.current_test = s.current_test + 1,
              !.cached_streams = DefaultCache]

\* advance_test that keeps the cache of the test it leaves.
advance_test_keeps_cache(s) ==
    [reset_scroll(s) EXCEPT !.current_stream = Stderr,
              !.current_test = s.current_test + 1,
              !.exited = (s.current_test + 1 = Len(paths))]

\* app.rs:142-151; exit(0) when the index reaches paths.len().
advance_test(s) ==
    [reset_scroll(s) EXCEPT !.current_stream = Stderr,
              !.current_test = s.current_test + 1,
              !.cached_streams = DefaultCache,
              !.exited = (s.current_test + 1 = Len(paths))]

\* advance_stream whose stderr arm forgets reset_scroll.
advance_stream_no_reset(s) ==
    IF s.current_stream = Stderr
    THEN [s EXCEPT !.current_stream = Stdout]
    ELSE advance_test(s)

\* advance_stream that clears the cache when it moves to stdout.
advance_stream_clears_cache(s) ==
    IF s.current_stream = Stderr
    THEN [reset_scroll(s) EXCEPT !.current_stream = Stdout,
                                 !.cached_streams = DefaultCache]
    ELSE advance_test(reset_scroll(s))

\* app.rs:158-164
advance_stream(s) ==
    IF s.current_stream = Stderr
    THEN [reset_scroll(s) EXCEPT !.current_stream = Stdout]
    ELSE advance_test(reset_scroll(s))

\* previous_test that keeps the cache of the test it leaves.
previous_test_keeps_cache(s) ==
    [reset_scroll(s) EXCEPT !.current_stream = Stderr,
              !.current_test = IF s.current_test = 0 THEN 0 ELSE s.current_test - 1]

\* previous_test that wraps from the first test to the last.
previous_test_wraps(s) ==
    [reset_scroll(s) EXCEPT !.current_stream = Stderr,
              !.current_test = IF s.current_test = 0 THEN Len(paths) - 1
                               ELSE s.current_test - 1,
              !.cached_streams = DefaultCache]

\* previous_test that stays on the stream it was called on.
previous_test_keeps_stream(s) ==
    [reset_scroll(s) EXCEPT
              !.current_test = IF s.current_test = 0 THEN 0 ELSE s.current_test - 1,
              !.cached_streams = DefaultCache]

\* previous_test with a plain subtraction instead of saturating_sub.
previous_test_unsaturated(s) ==
    [reset_scroll(s) EXCEPT !.current_stream = Stderr,
              !.current_test = s.current_test - 1,
              !.cached_streams = DefaultCache]

\* app.rs:166-171; saturating_sub(1)
previous_test(s) ==
    [reset_scroll(s) EXCEPT !.current_stream = Stderr,
              !.current_test = IF s.current_test = 0 THEN 0 ELSE s.current_test - 1,
              !.cached_streams = DefaultCache]

\* The cache entry of the active stream (app.rs:375-378 and 174-187).
active_entry(s) ==
    IF s.current_stream = Stderr THEN s.cached_streams.stderr
                                 ELSE s.cached_streams.stdout

\* request_curr_test that leaves a test as soon as its stderr is Missing.
request_curr_test_skips_stdout(s, f, k) ==
    LET e == active_entry(s)
    IN  CASE s.current_stream = Stderr /\ e.tag = "Unloaded" -> load_curr_data(s, f, k)
          [] e.tag = "Missing" -> advance_test(s)
          [] s.current_stream = Stdout /\ e.tag = "Unloaded" ->
                 [s EXCEPT !.panicked = TRUE]
          [] e.tag = "Present" -> s

\* One call level of request_curr_test (app.rs:173-196): the match, and the
\* state change made before the tail call; a Present entry is returned as
\* it is. The stderr skip (app.rs:181-184) does not call reset_scroll.
request_curr_test(s, f, k) ==
    LET e == active_entry(s)
    IN  CASE s.current_stream = Stderr /\ e.tag = "Unloaded" -> load_curr_data(s, f, k)
          [] s.current_stream = Stderr /\ e.tag = "Missing" ->
                 [s EXCEPT !.current_stream = Stdout]
          [] s.current_stream = Stdout /\ e.tag = "Missing" -> advance_test(s)
          [] s.current_stream = Stdout /\ e.tag = "Unloaded" ->
                 [s EXCEPT !.panicked = TRUE]      \* unreachable!()
          [] e.tag = "Present" -> s

returns_data(s) == active_entry(s).tag = "Present"

\* What std::fs::write(path, text) leaves behind: Ok, or Err with the file
\* untouched (open failed), or Err with the file created/truncated.
WriteOutcomes == {"ok", "err", "err_truncated"}

fs_write(f, path, text, w) ==
    CASE w = "ok" -> [f EXCEPT ![path] = Some(text)]
      [] w = "err" -> f
      [] w = "err_truncated" -> [f EXCEPT ![path] = Some(0)]

\* app.rs:374-383, the effect on the files.
bless_fs(s, f, w) ==
    LET data == active_entry(s)
    IN  IF data.tag = "Present"
        THEN fs_write(f, data.data.expected_path, data.data.actual, w)
        ELSE f

\* bless that writes and stays on the stream.
bless_stays(s, w) ==
    IF active_entry(s).tag = "Present" /\ w # "ok"
    THEN [s EXCEPT !.panicked = TRUE]
    ELSE s

\* bless that drops the cached entries after it has moved on.
bless_clears_cache(s, w) ==
    IF active_entry(s).tag = "Present" /\ w # "ok"
    THEN [s EXCEPT !.panicked = TRUE]
    ELSE [advance_stream(s) EXCEPT !.cached_streams = DefaultCache]

\* bless that drops the result of the write instead of unwrapping it.
bless_ignores_error(s, w) == advance_stream(s)

\* app.rs:374-383, the effect on the App: unwrap() panics on a failed write,
\* before advance_stream.
bless(s, w) ==
    IF active_entry(s).tag = "Present" /\ w # "ok"
    THEN [s EXCEPT !.panicked = TRUE]
    ELSE advance_stream(s)

-----------------------------------------------------------------------------
(* View keys *)

\* app.rs:447-453
rotate_next(m) ==
    CASE m = "Char" -> "Word"
      [] m = "Word" -> "Line"
      [] m = "Line" -> "Char"

\* app.rs:306-308 (d)
key_d(s) == [s EXCEPT !.config.diff_mode = rotate_next(@)]

\* Key r that leaves RustcArgs for the default mode.
key_r_restores_default(s) ==
    IF IsRustcArgs(s.config.show_mode)
    THEN [s EXCEPT !.config.show_mode = Vertical,
                   !.prev_view = s.config.show_mode]
    ELSE [s EXCEPT !.prev_view = s.config.show_mode,
                   !.config.show_mode = RustcArgs(FALSE)]

\* app.rs:309-318 (r)
key_r(s) ==
    IF IsRustcArgs(s.config.show_mode)
    THEN [s EXCEPT !.config.show_mode = s.prev_view,
                   !.prev_view = s.config.show_mode]
    ELSE [s EXCEPT !.prev_view = s.config.show_mode,
                   !.config.show_mode = RustcArgs(FALSE)]

\* app.rs:319-323 (o)
key_o(s) ==
    IF IsRustcArgs(s.config.show_mode)
    THEN [s EXCEPT !.config.show_mode = RustcArgs(~Oneline(@))]
    ELSE s

\* Key p that copies the slot instead of swapping.
key_p_copies(s) == [s EXCEPT !.config.show_mode = s.prev_view]

\* app.rs:324-326 (p): mem::swap
key_p(s) ==
    [s EXCEPT !.config.show_mode = s.prev_view,
              !.prev_view = s.config.show_mode]

\* app.rs:327-329 (h)
key_h(s) == [s EXCEPT !.config.hide_help = ~@]

\* app.rs:351-357 (c)
key_c(s) ==
    LET m == s.config.show_mode
    IN  CASE m = SideBySide -> [s EXCEPT !.config.show_mode = SideBySideOnly]
          [] m = SideBySideOnly -> [s EXCEPT !.config.show_mode = SideBySide]
          [] m = Vertical -> [s EXCEPT !.config.show_mode = VerticalOnly]
          [] m = VerticalOnly -> [s EXCEPT !.config.show_mode = Vertical]
          [] OTHER -> s

\* Key s that also brings the code panel back.
key_s_shows_code(s) ==
    LET m == s.config.show_mode
    IN  CASE m = SideBySide -> [s EXCEPT !.config.show_mode = Vertical]
          [] m = SideBySideOnly -> [s EXCEPT !.config.show_mode = Vertical]
          [] m = Vertical -> [s EXCEPT !.config.show_mode = SideBySide]
          [] m = VerticalOnly -> [s EXCEPT !.config.show_mode = SideBySide]
          [] OTHER -> s

\* app.rs:358-364 (s)
key_s(s) ==
    LET m == s.config.show_mode
    IN  CASE m = SideBySide -> [s EXCEPT !.config.show_mode = Vertical]
          [] m = SideBySideOnly -> [s EXCEPT !.config.show_mode = VerticalOnly]
          [] m = Vertical -> [s EXCEPT !.config.show_mode = SideBySide]
          [] m = VerticalOnly -> [s EXCEPT !.config.show_mode = SideBySideOnly]
          [] OTHER -> s

-----------------------------------------------------------------------------
(* Layout (view.rs) *)

\* Layout::split of a Rect in two halves, Direction::Vertical and
\* Direction::Horizontal (view.rs:62-69): element 1 is layout[0].
split_vertical(rect) == <<Append(rect, "top"), Append(rect, "bottom")>>
split_horizontal(rect) == <<Append(rect, "left"), Append(rect, "right")>>

\* view.rs:59-102
DiffShow_new(mode, rect) ==
    CASE mode = SideBySide ->
             LET layout == split_vertical(rect)
                 diff_layout == split_horizontal(layout[2])
             IN  [kind |-> SideBySide, code |-> layout[1],
                  rhs |-> diff_layout[1], lhs |-> diff_layout[2]]
      [] mode = SideBySideOnly ->
             LET diff_layout == split_horizontal(rect)
             IN  [kind |-> SideBySideOnly,
                  rhs |-> diff_layout[1], lhs |-> diff_layout[2]]
      [] mode = Vertical ->
             LET layout == split_vertical(rect)
             IN  [kind |-> Vertical, code |-> layout[1], diff |-> layout[2]]
      [] mode = VerticalOnly -> [kind |-> VerticalOnly, diff |-> rect]
      [] IsRustcArgs(mode) ->
             [kind |-> "RustcArgs", args |-> rect, oneline |-> Oneline(mode)]

\* view.rs:14-34; the frame area is split in the top bar, the main region
\* and, unless hidden, the help bar.
FullLayout_new(cfg) ==
    LET rects == IF ~cfg.hide_help
                 THEN << <<"top_bar">>, <<"main">>, <<"help_bar">> >>
                 ELSE << <<"top_bar">>, <<"main">> >>
    IN  [top_bar |-> rects[1],
         diff_show |-> DiffShow_new(cfg.show_mode, rects[2]),
         help_bar |-> IF ~cfg.hide_help THEN Some(rects[3]) ELSE None]

-----------------------------------------------------------------------------
(* Diff rendering *)

min(a, b) == IF a < b THEN a ELSE b
max(a, b) == IF a < b THEN b ELSE a

\* TextDiff of old and new followed by iter_all_changes (app.rs:465-468):
\* the shared lines are Equal, the further lines of old are Delete, those
\* of new are Insert.
iter_all_changes(old, new) ==
    [i \in 1..max(old, new) |->
        [tag |-> IF i <= min(old, new) THEN "Equal"
                 ELSE IF old > new THEN "Delete" ELSE "Insert",
         value |-> i]]

KeepsOld(hunk) == hunk.tag \in {"Equal", "Delete"}
KeepsNew(hunk) == hunk.tag \in {"Equal", "Insert"}

\* app.rs:464-485
diff_vertical_linewise(lhs, rhs) ==
    LET diff == iter_all_changes(lhs, rhs)
    IN  <<SelectSeq(diff, KeepsOld), SelectSeq(diff, KeepsNew)>>

\* app.rs:487-515: Line mode returns (lhs, rhs); Word and Char mode return
\* (rhs, lhs), line 514.
diff_vertical(lhs, rhs, diffmode) ==
    IF diffmode = "Line"
    THEN diff_vertical_linewise(lhs, rhs)
    ELSE LET diff == iter_all_changes(lhs, rhs)
             l == SelectSeq(diff, KeepsOld)
             r == SelectSeq(diff, KeepsNew)
         IN  <<r, l>>

\* app.rs:517-558
diff_horizontal(lhs, rhs, diffmode) == iter_all_changes(lhs, rhs)

\* mk_paragraph(title, text) rendered into rect (app.rs:214-218).
Widget(title, text, rect) == [title |-> title, text |-> text, rect |-> rect]

\* What one unstyled string is as the text of a paragraph.
Plain(x) == <<[tag |-> "Plain", value |-> x]>>

\* app.rs:213-285 after request_curr_test has returned data: the widgets
\* rendered, in the order of the render_widget calls, each with its title
\* and its Rect.
draw(s, data) ==
    LET layout == FullLayout_new(s.config)
        show == layout.diff_show
        help == IF layout.help_bar # None
                THEN <<Widget("help", Plain(s.config.show_mode), layout.help_bar[1])>>
                ELSE <<>>
        top == <<Widget("top bar", Plain(data.test_name), layout.top_bar)>>
    IN  help \o top \o
        CASE show.kind = SideBySide ->
                 LET d == diff_vertical(data.expect, data.actual, s.config.diff_mode)
                 IN  <<Widget("code", Plain(data.test_code), show.code),
                       Widget("expected", d[1], show.lhs),
                       Widget("actual", d[2], show.rhs)>>
          [] show.kind = SideBySideOnly ->
                 LET d == diff_vertical(data.expect, data.actual, s.config.diff_mode)
                 IN  <<Widget("expected", d[1], show.lhs),
                       Widget("actual", d[2], show.rhs)>>
          [] show.kind = Vertical ->
                 <<Widget("code", Plain(data.test_code), show.code),
                   Widget("diff", diff_horizontal(data.expect, data.actual,
                                                  s.config.diff_mode), show.diff)>>
          [] show.kind = VerticalOnly ->
                 <<Widget("diff", diff_horizontal(data.expect, data.actual,
                                                  s.config.diff_mode), show.diff)>>
          [] show.kind = "RustcArgs" ->
                 <<Widget("rustc arguments",
                          <<[tag |-> IF show.oneline THEN "Oneline" ELSE "OnePerLine",
                             value |-> data.rustc_args]>>,
                          show.args)>>

-----------------------------------------------------------------------------
(* The run loop *)

SetApp(s) ==
    /\ current_test' = s.current_test
    /\ current_stream' = s.current_stream
    /\ cached_streams' = s.cached_streams
    /\ scroll_pos_diff' = s.scroll_pos_diff
    /\ scroll_pos_code' = s.scroll_pos_code
    /\ config' = s.config
    /\ prev_view' = s.prev_view

\* Outcome of a run loop that handles the next event without drawing.
Outcome_without_draw(s, next_pc) ==
    /\ status' = IF s.panicked THEN "panicked"
                 ELSE IF s.exited THEN "exit_success" ELSE "running"
    /\ pc' = IF s.panicked \/ s.exited THEN "done"
             ELSE IF next_pc = "draw" THEN "key" ELSE next_pc

\* How a step that may exit(0) or panic leaves the process.
Outcome(s, next_pc) ==
    /\ status' = IF s.panicked THEN "panicked"
                 ELSE IF s.exited THEN "exit_success" ELSE "running"
    /\ pc' = IF s.panicked \/ s.exited THEN "done" ELSE next_pc

Step(act, w) ==
    [act |-> act, test |-> current_test, stream |-> current_stream,
     cache |-> cached_streams, write |-> w,
     scroll_diff |-> scroll_pos_diff, scroll_code |-> scroll_pos_code,
     show_mode |-> config.show_mode, prev_view |-> prev_view, entered |-> entered]

\* File systems with at most MaxFiles output files.
InitialFs ==
    UNION { { [x \in Files |-> IF x \in S THEN Some(g[x]) ELSE None] : g \in [S -> Texts] } :
            S \in {T \in SUBSET Files : Cardinality(T) <= MaxFiles} }

\* File systems with at most MaxNewOutputs actual output files, each holding
\* the same text, and no expected output file.
NewOutputFs ==
    LET Actuals == {x \in Files : x.dir = "build"}
    IN  { [x \in Files |-> IF x \in S THEN Some(1) ELSE None] :
          S \in {T \in SUBSET Actuals : Cardinality(T) <= MaxNewOutputs} }

\* App::default() (main.rs:105) with the history of the model at its start.
AppDefault ==
    /\ running = FALSE
    /\ current_test = 0
    /\ current_stream = Stderr
    /\ cached_streams = DefaultCache
    /\ scroll_pos_diff = 0
    /\ scroll_pos_code = 0
    /\ config = DefaultConfig
    /\ prev_view = Vertical
    /\ status = "running"
    /\ frame = NoFrame
    /\ screen = <<>>
    /\ entered = None
    /\ req = [test |-> 0, stream |-> Stderr, loads |-> 0, steps |-> 0,
              shown |-> NoFrame, by |-> "init", scroll_diff |-> 0, scroll_code |-> 0]
    /\ last = [act |-> "init", test |-> 0, stream |-> Stderr,
               cache |-> DefaultCache, write |-> "none",
               scroll_diff |-> 0, scroll_code |-> 0,
               show_mode |-> Vertical, prev_view |-> Vertical, entered |-> None]

\* The App of main.rs:101-106 before run(): the log has been parsed and
\* its list is paths.
InitApp ==
    /\ AppDefault
    /\ pc = "start"
    /\ events = LogOfPaths
    /\ parsed = Some(parse_events(events))

Init ==
    /\ InitApp
    /\ fs \in InitialFs
    /\ kind \in [PathNames -> {"ok", "nosrc", "noprefix"}]

\* app.rs:200
RunStart ==
    /\ pc = "start"
    /\ running' = TRUE
    /\ pc' = "draw"
    /\ last' = Step("run", "none")
    /\ UNCHANGED <<current_test, current_stream, cached_streams, scroll_pos_diff,
                   scroll_pos_code, config, prev_view, fs, kind, events, parsed,
                   status, frame, screen, entered, req>>

\* app.rs:201-202 and 213-233: the loop test passed, draw() starts and calls
\* request_curr_test.
DrawBegin ==
    /\ pc = "draw"
    /\ running
    /\ pc' = "request"
    /\ req' = [test |-> current_test, stream |-> current_stream, loads |-> 0,
                steps |-> 0, shown |-> frame, by |-> last.act,
                scroll_diff |-> last.scroll_diff, scroll_code |-> last.scroll_code]
    /\ UNCHANGED <<running, current_test, current_stream, cached_streams,
                   scroll_pos_diff, scroll_pos_code, config, prev_view, fs,
                   kind, events, parsed, status, frame, screen, entered, last>>

\* One call level of request_curr_test that does not return: load or skip.
RequestStep ==
    /\ pc = "request"
    /\ ~returns_data(Self)
    /\ LET s == request_curr_test(Self, fs, kind)
       IN  /\ SetApp(s)
           /\ Outcome(s, "request")
    /\ req' = [req EXCEPT !.steps = @ + 1,
                           !.loads =
                  IF current_stream = Stderr /\ cached_streams.stderr.tag = "Unloaded"
                  THEN @ + 1 ELSE @]
    /\ last' = Step("request", "none")
    /\ UNCHANGED <<running, fs, kind, events, parsed, frame, screen, entered>>

\* request_curr_test returns the Present entry; draw() renders it
\* (app.rs:234-284) and run() waits for an event.
RequestReturn ==
    /\ pc = "request"
    /\ returns_data(Self)
    /\ LET s == request_curr_test(Self, fs, kind)
       IN  /\ SetApp(s)
           /\ frame' = active_entry(s).data
           /\ screen' = draw(s, active_entry(s).data)
    /\ pc' = "key"
    /\ last' = Step("return", "none")
    /\ UNCHANGED <<running, fs, kind, events, parsed, status, entered, req>>

\* app.rs:305 and 370-372, then the loop test of line 201 and Ok(()).
KeyQuit ==
    /\ pc = "key"
    /\ running' = FALSE
    /\ pc' = "done"
    /\ status' = "returned_ok"
    /\ last' = Step("q", "none")
    /\ UNCHANGED <<current_test, current_stream, cached_streams, scroll_pos_diff,
                   scroll_pos_code, config, prev_view, fs, kind, events, parsed,
                   frame, screen, entered, req>>

\* app.rs:330-332
KeyBless ==
    /\ pc = "key"
    /\ \E w \in WriteOutcomes :
          /\ fs' = bless_fs(Self, fs, w)
          /\ LET s == bless(Self, w)
             IN  /\ SetApp(s)
                 /\ Outcome(s, "draw")
          /\ last' = Step("b", IF active_entry(Self).tag = "Present" THEN w ELSE "none")
    /\ UNCHANGED <<running, kind, events, parsed, frame, screen, entered, req>>

\* app.rs:333-335
KeyNext ==
    /\ pc = "key"
    /\ LET s == advance_stream(Self)
       IN  /\ SetApp(s)
           /\ Outcome(s, "draw")
    /\ last' = Step("n", "none")
    /\ UNCHANGED <<running, fs, kind, events, parsed, frame, screen, entered, req>>

\* app.rs:336-338
KeyPrevious ==
    /\ pc = "key"
    /\ LET s == previous_test(Self)
       IN  /\ SetApp(s)
           /\ Outcome(s, "draw")
    /\ last' = Step("N", "none")
    /\ UNCHANGED <<running, fs, kind, events, parsed, frame, screen, entered, req>>

\* app.rs:292-298 and 365: an event that changes nothing of the session
\* (mouse, resize, key release, unbound key); the next frame is drawn.
OtherEvent ==
    /\ pc = "key"
    /\ pc' = "draw"
    /\ last' = Step("other", "none")
    /\ UNCHANGED <<running, current_test, current_stream, cached_streams,
                   scroll_pos_diff, scroll_pos_code, config, prev_view, fs,
                   kind, events, parsed, status, frame, screen, entered, req>>

saturating_sub(x, y) == IF x < y THEN 0 ELSE x - y

\* What a scroll key leaves alone; the next frame is drawn.
ScrollKeyFrame ==
    /\ pc' = "draw"
    /\ UNCHANGED <<running, current_test, current_stream, cached_streams,
                   config, prev_view, fs, kind, events, parsed, status, frame, screen, entered, req>>

\* app.rs:339-341 (j): += 1 on a u16
KeyScrollDiffDown ==
    /\ pc = "key"
    /\ scroll_pos_diff < MaxScroll
    /\ scroll_pos_diff' = scroll_pos_diff + 1
    /\ UNCHANGED scroll_pos_code
    /\ last' = Step("j", "none")
    /\ ScrollKeyFrame

\* app.rs:342-344 (k)
KeyScrollDiffUp ==
    /\ pc = "key"
    /\ scroll_pos_diff' = saturating_sub(scroll_pos_diff, 1)
    /\ UNCHANGED scroll_pos_code
    /\ last' = Step("k", "none")
    /\ ScrollKeyFrame

\* app.rs:345-347 (J): += 1 on a u16
KeyScrollCodeDown ==
    /\ pc = "key"
    /\ scroll_pos_code < MaxScroll
    /\ scroll_pos_code' = scroll_pos_code + 1
    /\ UNCHANGED scroll_pos_diff
    /\ last' = Step("J", "none")
    /\ ScrollKeyFrame

\* app.rs:348-350 (K)
KeyScrollCodeUp ==
    /\ pc = "key"
    /\ scroll_pos_code' = saturating_sub(scroll_pos_code, 1)
    /\ UNCHANGED scroll_pos_diff
    /\ last' = Step("K", "none")
    /\ ScrollKeyFrame

Next ==
    \/ RunStart
    \/ DrawBegin
    \/ RequestStep
    \/ RequestReturn
    \/ KeyQuit
    \/ KeyBless
    \/ KeyNext
    \/ KeyPrevious
    \/ OtherEvent

\* The session keys q, b, n, N and the events that change nothing.
Spec == Init /\ [][Next]_vars

\* The session keys together with the scroll keys j, k, J, K.
NextScroll ==
    \/ Next
    \/ KeyScrollDiffDown
    \/ KeyScrollDiffUp
    \/ KeyScrollCodeDown
    \/ KeyScrollCodeUp

\* Every path starts with tests/ and has a readable source; the recorded
\* outputs are new (no expected file yet).
InitScroll ==
    /\ InitApp
    /\ fs \in NewOutputFs
    /\ kind = [p \in PathNames |-> "ok"]

SpecScroll == InitScroll /\ [][NextScroll]_vars

\* A view key: the handler has run on the App and the next frame is drawn.
\* entered follows the mode: set when r enters RustcArgs, dropped when the
\* mode is no longer RustcArgs.
ViewKey(act, s) ==
    /\ pc = "key"
    /\ SetApp(s)
    /\ pc' = "draw"
    /\ last' = Step(act, "none")
    /\ entered' = IF ~IsRustcArgs(s.config.show_mode) THEN None
                  ELSE IF act = "r" THEN Some(config.show_mode)
                  ELSE entered
    /\ UNCHANGED <<running, fs, kind, events, parsed, status, frame, screen, req>>

\* app.rs:306-308
KeyDiffMode == ViewKey("d", key_d(Self))

\* app.rs:309-318
KeyRustcArgs == ViewKey("r", key_r(Self))

\* app.rs:319-323
KeyOneline == ViewKey("o", key_o(Self))

\* app.rs:324-326
KeyPreviousView == ViewKey("p", key_p(Self))

\* app.rs:327-329
KeyHelp == ViewKey("h", key_h(Self))

\* app.rs:351-357
KeyCode == ViewKey("c", key_c(Self))

\* app.rs:358-364
KeySplit == ViewKey("s", key_s(Self))

\* The render pass and the view keys d, r, o, p, h, c, s.
NextView ==
    \/ RunStart
    \/ DrawBegin
    \/ RequestStep
    \/ RequestReturn
    \/ KeyDiffMode
    \/ KeyRustcArgs
    \/ KeyOneline
    \/ KeyPreviousView
    \/ KeyHelp
    \/ KeyCode
    \/ KeySplit

\* File systems where only the two stderr files of the first test may exist.
StderrPairFs ==
    LET e == ExpectedPath(paths[1], "stderr")
        a == ActualPath(paths[1], "stderr")
    IN  { [x \in Files |-> IF x = e THEN ce ELSE IF x = a THEN ca ELSE None] :
          ce \in Content, ca \in Content }

InitView ==
    /\ InitApp
    /\ fs \in StderrPairFs
    /\ kind = [p \in PathNames |-> "ok"]

SpecView == InitView /\ [][NextView]_vars

\* What main leaves alone before the App runs.
MainFrame ==
    UNCHANGED <<running, current_test, current_stream, cached_streams,
                scroll_pos_diff, scroll_pos_code, config, prev_view, fs, kind,
                events, frame, screen, entered, req, last>>

\* main.rs:90: parse_events on the log read from the file.
ParseEvents ==
    /\ pc = "main"
    /\ parsed' = Some(parse_events(events))
    /\ pc' = "parsed"
    /\ UNCHANGED status
    /\ MainFrame

\* main.rs:92-98: no failing test, main prints the counts and returns Ok.
NoFailedTests ==
    /\ pc = "parsed"
    /\ parsed[1].failed = <<>>
    /\ pc' = "done"
    /\ status' = "returned_ok"
    /\ UNCHANGED parsed
    /\ MainFrame

\* main.rs:100-106: the App is built from the list and the stats.
BuildApp ==
    /\ pc = "parsed"
    /\ parsed[1].failed # <<>>
    /\ pc' = "start"
    /\ UNCHANGED <<parsed, status>>
    /\ MainFrame

NextParse ==
    \/ ParseEvents
    \/ NoFailedTests
    \/ BuildApp

\* main is started on a log; no output file matters before the App runs.
InitParse ==
    /\ AppDefault
    /\ pc = "main"
    /\ events \in Logs
    /\ parsed = None
    /\ fs = [x \in Files |-> None]
    /\ kind = [p \in PathNames |-> "ok"]

SpecParse == InitParse /\ [][NextParse]_vars

TypeOK ==
    /\ config.diff_mode \in DiffMode
    /\ config.show_mode \in ShowMode
    /\ config.hide_help \in BOOLEAN
    /\ prev_view \in ShowMode
    /\ running \in BOOLEAN
    /\ current_test \in 0..NumTests
    /\ current_stream \in Stream
    /\ pc \in {"main", "parsed", "start", "draw", "request", "key", "done"}
    /\ status \in {"running", "exit_success", "returned_ok", "panicked"}

-----------------------------------------------------------------------------
(* Navigation *)

\* The last step called advance_test: key n or a successful bless at Stdout,
\* or the skip-forward of request_curr_test at a Missing stdout.
CalledAdvanceTest ==
    /\ status # "panicked"
    /\ last.act \in {"n", "b", "request"}
    /\ last.stream = Stdout

CalledPreviousTest == last.act = "N"

\* C1: the index stays within 0..len(paths); right after advance_test or
\* previous_test the stream is Stderr; previous_test at index 0 stays at 0.
C1_NavigationInvariant ==
    /\ 0 <= current_test /\ current_test <= Len(paths)
    /\ (CalledAdvanceTest \/ CalledPreviousTest) => current_stream = Stderr
    /\ CalledAdvanceTest => current_test = last.test + 1
    /\ CalledPreviousTest =>
           current_test = IF last.test = 0 THEN 0 ELSE last.test - 1

\* previous_test was called at index 0 while stdout was shown.
C1_Witness ==
    /\ CalledPreviousTest
    /\ last.test = 0
    /\ last.stream = Stdout
    /\ current_test = 0
    /\ current_stream = Stderr

\* C2: what request_curr_test returns to the render pass is the Present
\* entry of the position at return: its stream tag is current_stream and
\* its test_name is paths[current_test].
C2_ShownIsCurrent ==
    last.act = "return" =>
        /\ active_entry(Self) = Present(frame)
        /\ frame.stream = current_stream
        /\ frame.test_name = paths[current_test + 1]

\* A frame of the stdout of the second test.
C2_Witness ==
    /\ last.act = "return"
    /\ current_test = 1
    /\ current_stream = Stdout
    /\ frame.test_name = paths[2]

-----------------------------------------------------------------------------
(* Skip-forward *)

\* What load_curr_data makes of test i with the files as they are.
Loaded(i) == load_curr_data([Self EXCEPT !.current_test = i], fs, kind)

ClassifiedAs(i, err_tag, out_tag) ==
    /\ ~Loaded(i).panicked
    /\ Loaded(i).cached_streams.stderr.tag = err_tag
    /\ Loaded(i).cached_streams.stdout.tag = out_tag

\* The request_curr_test call that began at stderr has ended, by returning
\* or by exit(0), with no key in between.
RequestFromStderrEnded ==
    /\ req.stream = Stderr
    /\ last.act \in {"request", "return"}
    /\ pc \in {"key", "done"}
    /\ status # "panicked"

\* C3: a request at stderr of test i returns the stdout data of test i when
\* stderr is Missing and stdout Present; when both are Missing it moves to
\* test i+1 (stderr, cache cleared) and goes on from there.
C3_SkipForward ==
    /\ (RequestFromStderrEnded /\ ClassifiedAs(req.test, "Missing", "Present")) =>
           /\ last.act = "return"
           /\ current_test = req.test
           /\ current_stream = Stdout
           /\ Present(frame) = Loaded(req.test).cached_streams.stdout
    /\ (RequestFromStderrEnded /\ ClassifiedAs(req.test, "Missing", "Missing")) =>
           current_test > req.test
    /\ (last.act = "request" /\ last.stream = Stdout /\ status # "panicked"
            /\ ClassifiedAs(last.test, "Missing", "Missing")) =>
           /\ current_test = last.test + 1
           /\ current_stream = Stderr
           /\ cached_streams = DefaultCache
           /\ (pc = "request" \/ status = "exit_success")

\* The request began at stderr of the first test, whose stderr is Missing,
\* and returned its stdout.
C3_Witness ==
    /\ RequestFromStderrEnded
    /\ req.test = 0
    /\ ClassifiedAs(0, "Missing", "Present")
    /\ last.act = "return"
    /\ current_stream = Stdout

\* Both streams of the first test are Missing and the request went on to
\* show the second test.
C3_WitnessBothMissing ==
    /\ RequestFromStderrEnded
    /\ req.test = 0
    /\ ClassifiedAs(0, "Missing", "Missing")
    /\ last.act = "return"
    /\ current_test = 1

-----------------------------------------------------------------------------
(* Classification *)

\* The last step was the load_curr_data of test last.test, and it read the
\* source file.
LoadedReadableSource ==
    /\ last.act = "request"
    /\ last.stream = Stderr
    /\ last.cache.stderr.tag = "Unloaded"
    /\ kind[paths[last.test + 1]] = "ok"

\* The rule of the claim: some file is readable and the texts differ, an
\* absent file counting as the empty text.
MeaningfulDiff(expected, actual) ==
    /\ (expected # None \/ actual # None)
    /\ unwrap_or_default(expected) # unwrap_or_default(actual)

\* C4: with a readable source, a stream is Present exactly when one of its
\* two files is readable and the expected text differs from the actual
\* text; it is Missing otherwise. Stderr and stdout are judged separately.
C4_ClassificationRule ==
    LoadedReadableSource =>
        LET p == paths[last.test + 1]
        IN  /\ cached_streams.stderr.tag =
                   IF MeaningfulDiff(fs[ExpectedPath(p, "stderr")], fs[ActualPath(p, "stderr")])
                   THEN "Present" ELSE "Missing"
            /\ cached_streams.stdout.tag =
                   IF MeaningfulDiff(fs[ExpectedPath(p, "stdout")], fs[ActualPath(p, "stdout")])
                   THEN "Present" ELSE "Missing"

-----------------------------------------------------------------------------
(* Bless *)

ExtOf(stream) == IF stream = Stderr THEN "stderr" ELSE "stdout"

\* The step being taken is a bless whose write succeeded.
BlessStepOk == pc = "key" /\ last'.act = "b" /\ last'.write = "ok"

\* C5: a bless on a Present entry writes the entry's actual text, as read
\* from the actual file, to the expected file of the shown stream of the
\* current test, leaves every other file alone, and then does advance_stream.
C5_BlessWritesExpected ==
    [][BlessStepOk =>
        LET p == paths[current_test + 1]
            target == ExpectedPath(p, ExtOf(current_stream))
        IN  /\ active_entry(Self).tag = "Present"
            /\ fs'[target] = Some(active_entry(Self).data.actual)
            /\ fs'[target] = Some(unwrap_or_default(fs[ActualPath(p, ExtOf(current_stream))]))
            /\ \A x \in Files \ {target} : fs'[x] = fs[x]
            /\ IF current_stream = Stderr
               THEN /\ current_test' = current_test
                    /\ current_stream' = Stdout
                    /\ cached_streams' = cached_streams
               ELSE /\ current_test' = current_test + 1
                    /\ current_stream' = Stderr
                    /\ cached_streams' = DefaultCache]_vars

\* A shown stdout with a non-empty actual text was blessed.
C5_Witness ==
    /\ last.act = "b"
    /\ last.write = "ok"
    /\ last.stream = Stdout
    /\ last.cache.stdout.tag = "Present"
    /\ fs[ExpectedPath(paths[last.test + 1], "stdout")] = Some(1)

\* The last step was a successful bless of (last.test, last.stream).
Blessed == last.act = "b" /\ last.write = "ok"

\* The entry a reload of the blessed test gives the blessed stream.
ReloadedEntry ==
    IF last.stream = Stderr THEN Loaded(last.test).cached_streams.stderr
                            ELSE Loaded(last.test).cached_streams.stdout

\* C6: after a successful bless, load_curr_data on the blessed test finds
\* expect = actual for the blessed stream and classifies it Missing.
C6_BlessFixedPoint ==
    Blessed =>
        /\ fs[ExpectedPath(paths[last.test + 1], ExtOf(last.stream))] =
               Some(unwrap_or_default(fs[ActualPath(paths[last.test + 1], ExtOf(last.stream))]))
        /\ ReloadedEntry = Missing

\* C7: a bless whose write fails leaves current_test and current_stream
\* where they were and ends the process with a panic.
C7_FailedWriteStops ==
    (last.act = "b" /\ last.write \in {"err", "err_truncated"}) =>
        /\ current_test = last.test
        /\ current_stream = last.stream
        /\ cached_streams = last.cache
        /\ status = "panicked"
        /\ pc = "done"

\* The write of a bless at stderr failed.
C7_Witness ==
    /\ last.act = "b"
    /\ last.write = "err"
    /\ last.stream = Stderr
    /\ status = "panicked"

-----------------------------------------------------------------------------
(* Unreadable source *)

\* The last step was the load_curr_data of a test whose source is unreadable.
LoadedUnreadableSource ==
    /\ last.act = "request"
    /\ last.stream = Stderr
    /\ last.cache.stderr.tag = "Unloaded"
    /\ kind[paths[last.test + 1]] = "nosrc"

\* C8: with an unreadable source both entries become Missing, whatever
\* output files exist, and no frame ever shows such a test.
C8_UnreadableSourceMissing ==
    /\ LoadedUnreadableSource =>
           /\ cached_streams = [stderr |-> Missing, stdout |-> Missing]
           /\ current_test = last.test
           /\ status = "running"
    /\ last.act = "return" => kind[frame.test_name] # "nosrc"

\* The source is unreadable although an output file of the test exists.
C8_Witness ==
    /\ LoadedUnreadableSource
    /\ \E e \in {"stderr", "stdout"} :
           fs[ActualPath(paths[last.test + 1], e)] # None
    /\ cached_streams.stdout = Missing

-----------------------------------------------------------------------------
(* Termination *)

\* C9: the index equals len(paths) exactly when the process has exited with
\* success from an advance at the last test; nothing runs after that; the
\* only other normal end is the quit key.
C9_EndOfList ==
    /\ current_test = Len(paths) <=> status = "exit_success"
    /\ status = "exit_success" =>
           /\ CalledAdvanceTest
           /\ last.test = Len(paths) - 1
           /\ pc = "done"
    /\ status = "returned_ok" => (last.act = "q" /\ ~running)
    /\ pc = "done" <=> status # "running"
    /\ pc = "done" => ~ENABLED Next

\* The skip-forward of a request ran past the last test.
C9_Witness ==
    /\ status = "exit_success"
    /\ last.act = "request"
    /\ current_test = Len(paths)

-----------------------------------------------------------------------------
(* Cache after navigation *)

\* The last step was a navigation command that did not panic.
Navigated == last.act \in {"n", "N", "b"} /\ status # "panicked"

\* C10 as stated: after any navigation command both entries are Unloaded.
C10_AnyNavigationUnloads ==
    Navigated => cached_streams = DefaultCache

\* C10, amended: after a navigation that changes the test both entries are
\* Unloaded until request_curr_test runs; advance_stream at stderr keeps
\* the loaded entries of the test.
C10_TestNavigationUnloads ==
    /\ (CalledAdvanceTest /\ last.act # "request") => cached_streams = DefaultCache
    /\ CalledPreviousTest => cached_streams = DefaultCache
    /\ (Navigated /\ last.act \in {"n", "b"} /\ last.stream = Stderr) =>
           /\ cached_streams = last.cache
           /\ cached_streams.stderr.tag # "Unloaded"
           /\ cached_streams.stdout.tag # "Unloaded"

\* previous_test was called from a loaded test and the next frame has begun.
C10_Witness ==
    /\ CalledPreviousTest
    /\ last.cache.stderr.tag = "Present"
    /\ last.test = 1
    /\ pc = "request"
    /\ cached_streams = DefaultCache

-----------------------------------------------------------------------------
(* Scroll offsets *)

\* The frame just drawn shows another (test, stream) than the frame before
\* it, or is the first frame.
ShowsNewPosition ==
    /\ last.act = "return"
    /\ \/ req.shown = NoFrame
       \/ req.shown.test_name # frame.test_name
       \/ req.shown.stream # frame.stream

\* C11: the first frame of a new position is drawn with both scroll offsets
\* at zero; scrolling up at offset zero leaves the offset at zero.
C11_ScrollResetOnNavigation ==
    /\ ShowsNewPosition => (scroll_pos_diff = 0 /\ scroll_pos_code = 0)
    /\ (last.act = "k" /\ last.scroll_diff = 0) => scroll_pos_diff = 0
    /\ (last.act = "K" /\ last.scroll_code = 0) => scroll_pos_code = 0
    /\ scroll_pos_diff >= 0 /\ scroll_pos_code >= 0

\* Key n was pressed on a scrolled stderr frame and the stdout of the same
\* test is now shown.
C11_Witness ==
    /\ ShowsNewPosition
    /\ req.by = "n"
    /\ req.scroll_diff = 1
    /\ req.scroll_code = 1
    /\ req.shown # NoFrame
    /\ req.shown.stream = Stderr
    /\ frame.stream = Stdout
    /\ scroll_pos_diff = 0

\* C18: advance_stream at stderr moves to stdout and zeroes both scroll
\* offsets, leaving the test and the cache alone; at stdout it does what
\* advance_test does.
C18_AdvanceStream ==
    /\ (last.act = "n" /\ last.stream = Stderr) =>
           /\ current_stream = Stdout
           /\ current_test = last.test
           /\ cached_streams = last.cache
           /\ scroll_pos_diff = 0 /\ scroll_pos_code = 0
           /\ status = "running" /\ pc \in {"draw", "request"}
    /\ (last.act = "n" /\ last.stream = Stdout) =>
           /\ current_stream = Stderr
           /\ current_test = last.test + 1
           /\ cached_streams = DefaultCache
           /\ scroll_pos_diff = 0 /\ scroll_pos_code = 0
           /\ status = IF last.test + 1 = Len(paths) THEN "exit_success" ELSE "running"

\* Key n was pressed on a scrolled stderr frame of a test whose two streams
\* are loaded.
C18_Witness ==
    /\ last.act = "n"
    /\ last.stream = Stderr
    /\ last.scroll_diff = 1
    /\ last.scroll_code = 1
    /\ cached_streams.stderr.tag = "Present"
    /\ cached_streams.stdout.tag = "Present"
    /\ current_stream = Stdout

-----------------------------------------------------------------------------
(* Cache entries of a visit *)

CacheFields == {"stderr", "stdout"}

\* Every entry that was loaded before the last step still has the value it
\* had.
LoadedEntriesKept ==
    \A e \in CacheFields :
        last.cache[e].tag # "Unloaded" => cached_streams[e] = last.cache[e]

\* C17 as stated: while current_test does not change a loaded entry keeps
\* its value.
C17_KeptWhileSameIndex ==
    (last.act # "init" /\ current_test = last.test) => LoadedEntriesKept

\* C17, amended: between calls of advance_test and previous_test a loaded
\* entry keeps its exact value, also across bless; the loader runs only on
\* a cache that is wholly Unloaded, and leaves no entry Unloaded; an entry
\* returns to Unloaded only in advance_test and previous_test, and
\* previous_test does so at index 0 as well, where current_test stays 0.
C17_ForwardBetweenNavigations ==
    /\ (last.act # "init" /\ ~CalledAdvanceTest /\ ~CalledPreviousTest)
           => LoadedEntriesKept
    /\ (last.act # "init" /\ cached_streams # last.cache /\ ~CalledAdvanceTest /\ ~CalledPreviousTest)
           => /\ last.act = "request"
              /\ last.stream = Stderr
              /\ last.cache = DefaultCache
              /\ \A e \in CacheFields : cached_streams[e].tag # "Unloaded"
    /\ (CalledPreviousTest /\ last.test = 0) =>
           (current_test = 0 /\ cached_streams = DefaultCache)

\* A bless wrote the expected stderr and the entries loaded before it are
\* still in the cache, stdout now being the stream.
C17_Witness ==
    /\ last.act = "b"
    /\ last.write = "ok"
    /\ last.stream = Stderr
    /\ last.cache.stderr.tag = "Present"
    /\ current_stream = Stdout
    /\ cached_streams = last.cache

\* previous_test at index 0 dropped a loaded entry.
C17_WitnessReset ==
    /\ CalledPreviousTest
    /\ last.test = 0
    /\ last.cache.stderr.tag = "Present"
    /\ current_test = 0
    /\ cached_streams = DefaultCache

-----------------------------------------------------------------------------
(* request_curr_test: the unreachable arm and termination *)

\* C19: whenever request_curr_test is evaluated with stdout as the stream,
\* the stdout entry is loaded; the program panics only in a failed write of
\* bless or in the loader, never in unreachable!().
C19_UnreachableNeverReached ==
    /\ (pc = "request" /\ current_stream = Stdout) =>
           cached_streams.stdout.tag # "Unloaded"
    /\ (pc = "request" /\ \E e \in CacheFields : cached_streams[e].tag = "Unloaded") =>
           current_stream = Stderr
    /\ status = "panicked" =>
           \/ last.act = "b" /\ last.write # "ok"
           \/ /\ last.act = "request"
              /\ last.stream = Stderr
              /\ last.cache.stderr.tag = "Unloaded"

\* A frame begins on stdout after key n moved there from stderr.
C19_Witness ==
    /\ pc = "request"
    /\ current_stream = Stdout
    /\ req.by = "n"
    /\ req.steps = 0
    /\ cached_streams.stdout.tag # "Unloaded"

\* The call of request_curr_test begun by the last DrawBegin is over.
RequestEnded == last.act \in {"request", "return"} /\ pc # "request"

RequestInProgress == last.act \in {"request", "return"} \/ (pc = "request" /\ req.steps = 0)

\* Test indices the call has passed or is on.
TestsPassed == (current_test - req.test) + 1

C20_WitnessPanic ==
    /\ RequestEnded
    /\ status = "panicked"
    /\ kind[paths[current_test + 1]] = "noprefix"

-----------------------------------------------------------------------------
(* Layout keys *)

\* The App with show mode m.
InMode(m) == [Self EXCEPT !.config.show_mode = m]

\* The table of the layout keys.
CodeToggled(m) ==
    CASE m = Vertical -> VerticalOnly
      [] m = VerticalOnly -> Vertical
      [] m = SideBySide -> SideBySideOnly
      [] m = SideBySideOnly -> SideBySide

SplitToggled(m) ==
    CASE m = Vertical -> SideBySide
      [] m = SideBySide -> Vertical
      [] m = VerticalOnly -> SideBySideOnly
      [] m = SideBySideOnly -> VerticalOnly

\* C12: from each of the four diff modes key c toggles the code panel and
\* key s toggles the split, as in the table; c twice and s twice give the
\* starting mode back, and c then s gives the mode of s then c.
C12_LayoutKeys ==
    /\ (last.act = "c" /\ last.show_mode \in DiffShowModes) =>
           /\ config.show_mode = CodeToggled(last.show_mode)
           /\ prev_view = last.prev_view
    /\ (last.act = "s" /\ last.show_mode \in DiffShowModes) =>
           /\ config.show_mode = SplitToggled(last.show_mode)
           /\ prev_view = last.prev_view
    /\ \A m \in DiffShowModes :
           /\ key_c(key_c(InMode(m))) = InMode(m)
           /\ key_s(key_s(InMode(m))) = InMode(m)
           /\ key_s(key_c(InMode(m))) = key_c(key_s(InMode(m)))

\* Key s was pressed in VerticalOnly and the mode is SideBySideOnly.
C12_Witness ==
    /\ last.act = "s"
    /\ last.show_mode = VerticalOnly
    /\ config.show_mode = SideBySideOnly

\* C13: key r in a mode M other than RustcArgs enters RustcArgs and
\* remembers M in the one slot prev_view, whatever the slot held; key o
\* keeps the slot; key r pressed while the mode has been RustcArgs since
\* then restores exactly M.
C13_RustcArgsToggle ==
    /\ (last.act = "r" /\ ~IsRustcArgs(last.show_mode)) =>
           /\ config.show_mode = RustcArgs(FALSE)
           /\ prev_view = last.show_mode
           /\ entered = Some(last.show_mode)
    /\ entered # None =>
           /\ IsRustcArgs(config.show_mode)
           /\ prev_view = entered[1]
           /\ ~IsRustcArgs(entered[1])
    /\ (last.act = "o" /\ last.entered # None) =>
           /\ entered = last.entered
           /\ config.show_mode = RustcArgs(~Oneline(last.show_mode))
    /\ (last.act = "r" /\ last.entered # None) =>
           /\ config.show_mode = last.entered[1]
           /\ IsRustcArgs(prev_view)

\* Key r restored SideBySideOnly after key o had switched to one line, the
\* slot having held another mode before.
C13_Witness ==
    /\ last.act = "r"
    /\ last.entered = Some(SideBySideOnly)
    /\ last.show_mode = RustcArgs(TRUE)
    /\ config.show_mode = SideBySideOnly

-----------------------------------------------------------------------------
(* Split views *)

\* The widget with this title on the screen, <<>> when there is none.
Panel(title) ==
    LET hits == SelectSeq(screen, LAMBDA w : w.title = title)
    IN  IF hits = <<>> THEN None ELSE Some(hits[1])

\* The screen shows the frame in the present show mode.
JustDrawn == pc = "key" /\ last.act = "return"

SplitDrawn == JustDrawn /\ config.show_mode \in {SideBySide, SideBySideOnly}

HasTag(text, tag) == \E i \in 1..Len(text) : text[i].tag = tag

\* C15: in the split views, in every diff mode, the panel titled "expected"
\* holds the Equal and Delete segments of the diff and no Insert segment,
\* the panel titled "actual" the Equal and Insert segments and no Delete
\* segment.
C15_SplitPanelSegments ==
    SplitDrawn =>
        LET diff == iter_all_changes(frame.expect, frame.actual)
        IN  /\ Panel("expected") # None
            /\ Panel("actual") # None
            /\ Panel("expected")[1].text = SelectSeq(diff, KeepsOld)
            /\ Panel("actual")[1].text = SelectSeq(diff, KeepsNew)
            /\ ~HasTag(Panel("expected")[1].text, "Insert")
            /\ ~HasTag(Panel("actual")[1].text, "Delete")

\* C16: in SideBySide the pair is in the top half of the main region,
\* expected left and actual right, and the code panel in the lower half; in
\* SideBySideOnly the main region is split in expected left, actual right.
C16_SplitPanelPlaces ==
    /\ (JustDrawn /\ config.show_mode = SideBySide) =>
           /\ Panel("expected") = Some(Widget("expected", Panel("expected")[1].text,
                                              <<"main", "top", "left">>))
           /\ Panel("actual") = Some(Widget("actual", Panel("actual")[1].text,
                                            <<"main", "top", "right">>))
           /\ Panel("code") # None
           /\ Panel("code")[1].rect = <<"main", "bottom">>
    /\ (JustDrawn /\ config.show_mode = SideBySideOnly) =>
           /\ Panel("expected") # None
           /\ Panel("expected")[1].rect = <<"main", "left">>
           /\ Panel("actual") # None
           /\ Panel("actual")[1].rect = <<"main", "right">>
           /\ Panel("code") = None

-----------------------------------------------------------------------------
(* The failing-test list *)

AllParse(evs) == \A i \in 1..Len(evs) : Parses(evs[i])

\* A test record with event "failed" whose name holds the marker "[ui] ".
FailedUiTest(line) ==
    /\ line.type = "test"
    /\ line.event = "failed"
    /\ line.name.ui

\* The paths of the failed UI tests of a sequence of records, in order.
FailedUiPaths(records) ==
    LET hits == SelectSeq(records, FailedUiTest)
    IN  [i \in 1..Len(hits) |-> hits[i].name.path]

\* C14: for a log whose lines all parse, the list of parse_events holds, in
\* log order, one path per failed UI test record after the first record
\* (the header), and nothing else.
C14_FailingList ==
    (parsed # None /\ events # <<>> /\ AllParse(events)) =>
        parsed[1].failed = FailedUiPaths(Tail(events))

\* The first record, itself a failed UI test, was discarded and the two
\* failed UI tests after it are listed in log order, the later path first.
C14_Witness ==
    /\ parsed # None
    /\ AllParse(events)
    /\ Len(events) = 3
    /\ FailedUiTest(events[1])
    /\ FailedUiPaths(Tail(events)) = <<2, 1>>
    /\ parsed[1].failed = <<2, 1>>

-----------------------------------------------------------------------------
(* Bless in the run loop *)

\* The cache entry of the stream that was active before the last step.
ActiveBefore ==
    IF last.stream = Stderr THEN last.cache.stderr ELSE last.cache.stdout

\* C21: a key is handled only on a Present entry of the active stream, so
\* every key b has gone through std::fs::write.
C21_BlessAlwaysWrites ==
    /\ pc = "key" =>
           /\ active_entry(Self).tag = "Present"
           /\ frame = active_entry(Self).data
    /\ last.act = "b" =>
           /\ ActiveBefore.tag = "Present"
           /\ last.write \in WriteOutcomes

\* Key b wrote the expected stdout of a test whose stderr is Missing.
C21_Witness ==
    /\ last.act = "b"
    /\ last.stream = Stdout
    /\ last.write = "ok"
    /\ last.cache.stderr.tag = "Missing"
    /\ fs[ActiveBefore.data.expected_path] = Some(ActiveBefore.data.actual)

\* C22: in every frame the expect text shown is the content of the file at
\* expected_path (an absent file counting as empty), the tool being the
\* only writer; it stays so until the next key.
C22_ShownExpectIsFile ==
    (pc = "key" /\ frame # NoFrame) =>
        /\ frame.expect = unwrap_or_default(fs[frame.expected_path])
        /\ frame.actual = unwrap_or_default(fs[ActualPath(frame.test_name, ExtOf(frame.stream))])

\* The stderr blessed earlier is shown again after key N, with the blessed
\* text as its expect text.
C22_Witness ==
    /\ pc = "key"
    /\ req.by = "N"
    /\ req.loads = 1
    /\ frame.stream = Stderr
    /\ frame.expect = 1
    /\ fs[frame.expected_path] = Some(1)

\* The index in the list of a path.
IndexOf(p) == CHOOSE i \in 0..(Len(paths) - 1) : paths[i + 1] = p

\* Position (i1, s1) is not after (i2, s2), with Stderr before Stdout.
NotAfter(i1, s1, i2, s2) ==
    \/ i1 < i2
    \/ i1 = i2 /\ (s1 = Stderr \/ s2 = Stdout)

\* The render pass that followed key N.
AfterKeyN == req.by = "N" /\ last.act \in {"request", "return"}

\* C23: the frame after key N shows a position that is not after the one
\* shown before, and between the key and that frame the session neither
\* exits nor panics.
C23_PreviousNeverForward ==
    /\ last.act = "N" => (status = "running" /\ current_test <= last.test)
    /\ AfterKeyN => status = "running"
    /\ (AfterKeyN /\ last.act = "return") =>
           /\ req.shown # NoFrame
           /\ NotAfter(current_test, current_stream,
                       IndexOf(req.shown.test_name), req.shown.stream)
           /\ frame.test_name = paths[current_test + 1]
           /\ frame.stream = current_stream

\* Key N on the second test went to a first test that is entirely Missing,
\* and the second test is shown again.
C23_Witness ==
    /\ AfterKeyN
    /\ last.act = "return"
    /\ req.test = 0
    /\ current_test = 1
    /\ req.shown.test_name = paths[2]
    /\ req.steps >= 4

\* C24: the mode and the remembered mode are never both RustcArgs; key r
\* pressed in RustcArgs gives one of the four diff modes.
C24_NeverBothRustcArgs ==
    /\ ~(IsRustcArgs(config.show_mode) /\ IsRustcArgs(prev_view))
    /\ (last.act = "r" /\ IsRustcArgs(last.show_mode)) =>
           /\ config.show_mode \in DiffShowModes
           /\ config.show_mode = last.prev_view
           /\ prev_view = last.show_mode

\* RustcArgs was reached by key p, not by key r, and key r left it for
\* SideBySide.
C24_Witness ==
    /\ last.act = "r"
    /\ IsRustcArgs(last.show_mode)
    /\ last.entered = None
    /\ config.show_mode = SideBySide

=============================================================================
